---- MODULE Spec2Model ----
(***************************************************************************)
(* Model of scripts/loki-monitor.py: the Loki storage monitor.             *)
(*                                                                         *)
(* One monitor thread runs main() -> LokiStorageMonitor() -> monitor_loop()*)
(* and its position is pc.  The Prometheus exposition server started by    *)
(* start_http_server runs in its own thread and reads the gauges on every  *)
(* scrape (action Scrape).  The backend (Loki) and the filesystem are the  *)
(* environment: their answers are drawn with \E in the step that asks.     *)
(*                                                                         *)
(* Numbers.  Sizes are small naturals.  GB is the number of model bytes in *)
(* one gigabyte (the program's 1024*1024*1024, scaled down).  A float that *)
(* the program rounds to two decimals is kept as its integer number of     *)
(* hundredths; an unrounded quotient is kept as the exact fraction         *)
(* [num, den].                                                             *)
(***************************************************************************)
EXTENDS Integers, Sequences, FiniteSets, TLC

\* ---------------------------------------------------------------- bounds
MaxBytes == 4          \* largest directory size the environment reports
MaxIter == 2           \* monitor-loop iterations explored
GB == 8                \* model bytes per gigabyte (scaled 1024*1024*1024)

\* MAX_SIZE_GB * GB values the environment may configure (0 = quota of zero)
MaxSizeChoices == {0, 3, 4}
\* CLEANUP_THRESHOLD_PERCENT values the environment may configure
ThresholdChoices == {50, 80}
\* CHECK_INTERVAL values (seconds) the environment may configure; 300 is the default
IntervalChoices == {30, 300}

\* timeout= of the three requests, in seconds
HEALTH_TIMEOUT == 10
DELETE_TIMEOUT == 30
COMPACTION_TIMEOUT == 30

\* the cleanup window: timedelta(days=3), timedelta(days=7); time is in seconds
END_DAYS == 3
START_DAYS == 7
SecondsPerDay == 86400
MaxClockStep == 1      \* seconds the clock may advance between two readings
\* UTC second at which trigger_cleanup first reads the clock
ClockChoices == {8 * SecondsPerDay}
\* local time minus UTC, in seconds, of the host
TzOffsets == {0 - 3600, 0, 3600}

VARIABLES
  pc,                          \* position of the monitor thread
  exitCode,                    \* process exit status once pc = "exit"
  MAX_SIZE_GB,                 \* env: maximum size, in model bytes (MAX_SIZE_GB * GB)
  CLEANUP_THRESHOLD_PERCENT,   \* env: threshold percent
  METRICS_OUTPUT_DIR,          \* filesystem: the configured directory, as __init__ found it
  fallback_dir,                \* filesystem: /tmp/loki_metrics, as __init__ found it
  max_size_bytes,              \* self.max_size_bytes
  threshold_bytes,             \* self.threshold_bytes
  metrics_dir,                 \* self.metrics_dir: "none", "configured", "fallback"
  fallbackAttempts,            \* number of fallback mkdir attempts made by __init__
  loki_data_size_bytes,        \* gauge
  loki_data_size_gb,           \* gauge, hundredths of a GB
  loki_max_size_bytes,         \* gauge
  loki_usage_percent,          \* gauge, exact fraction [num, den]
  loki_cleanup_operations,     \* counter
  loki_cleanup_errors,         \* counter
  metrics_file,                \* content of loki_metrics.prom: sequence of sample lines
  lastWrite,                   \* outcome of the file write of the last update_metrics
  current_size_bytes,          \* local of monitor_loop
  measured,                    \* this iteration obtained a size from get_directory_size
  iter,                        \* iterations started
  cleanupCalls,                \* trigger_cleanup invocations in this iteration
  excCaught,                   \* the handler at the loop boundary ran in this iteration
  prevExc,                     \* the previous iteration ended in that handler
  health, del, comp,           \* backend answers seen by the current trigger_cleanup
  nDelete, nCompact,           \* delete / compaction requests sent by that invocation
  ret,                         \* its return value: "none", "true", "false"
  ops0, errs0,                 \* counter values when that invocation was entered
  scraped,                     \* what the last scrape of the endpoint returned
  CHECK_INTERVAL,              \* env: poll interval in seconds
  scanError,                   \* get_directory_size of this iteration hit a traversal error
  warned,                      \* is_loki_healthy of this invocation logged a warning
  nHealth,                     \* readiness probes sent by this invocation
  win_start, win_end,          \* "start" / "end" of the delete payload, read as UTC seconds
  req_utc,                     \* UTC second at which the delete request was issued
  graceSlept,                  \* time.sleep(60) ran in this iteration
  totalCalls,                  \* trigger_cleanup invocations since startup
  totalTrue,                   \* those that returned True
  interrupted,                 \* KeyboardInterrupt was delivered
  dash_pc,                     \* fix_dashboard.py: "idle", "loaded", "processed", "again"
  dashboard,                   \* fix_dashboard.py: dashboard['panels'] as loaded
  fixed_panels,                \* fix_dashboard.py: result of process_panels
  fixed_again                  \* result of a second run over fixed_panels

vars == << pc, exitCode, MAX_SIZE_GB, CLEANUP_THRESHOLD_PERCENT, METRICS_OUTPUT_DIR,
           fallback_dir, max_size_bytes, threshold_bytes, metrics_dir, fallbackAttempts,
           loki_data_size_bytes, loki_data_size_gb, loki_max_size_bytes,
           loki_usage_percent, loki_cleanup_operations, loki_cleanup_errors,
           metrics_file, lastWrite, current_size_bytes, measured, iter, cleanupCalls,
           excCaught, prevExc, health, del, comp, nDelete, nCompact, ret, ops0, errs0,
           scraped, CHECK_INTERVAL, scanError, warned, nHealth, win_start, win_end,
           req_utc, graceSlept, totalCalls, totalTrue, interrupted,
           dash_pc, dashboard, fixed_panels, fixed_again >>

dashVars == << dash_pc, dashboard, fixed_panels, fixed_again >>
staticVars == << CHECK_INTERVAL, dashVars >>
probeVars == << warned, nHealth >>
windowVars == << win_start, win_end, req_utc >>
tallyVars == << totalCalls, totalTrue >>
envVars == << MAX_SIZE_GB, CLEANUP_THRESHOLD_PERCENT, METRICS_OUTPUT_DIR, fallback_dir >>
objVars == << max_size_bytes, threshold_bytes, metrics_dir, fallbackAttempts >>
gaugeVars == << loki_data_size_bytes, loki_data_size_gb, loki_max_size_bytes,
                loki_usage_percent >>
counterVars == << loki_cleanup_operations, loki_cleanup_errors >>
fileVars == << metrics_file, lastWrite >>
iterVars == << current_size_bytes, measured, iter, cleanupCalls, excCaught, prevExc >>
callVars == << health, del, comp, nDelete, nCompact, ret, ops0, errs0 >>

\* ------------------------------------------------------------ arithmetic
\* n/d rounded to the nearest integer, ties to even (Python round / format)
RoundHalfEven(n, d) ==
  LET q == n \div d
      r == n % d
  IN  IF 2 * r < d THEN q
      ELSE IF 2 * r > d THEN q + 1
      ELSE IF q % 2 = 0 THEN q ELSE q + 1

RatEq(a, b) == a.num * b.den = b.num * a.den

\* bytes_to_gb: round(bytes / GB, 2), as hundredths
bytes_to_gb(bytes_value) == RoundHalfEven(100 * bytes_value, GB)

\* usage_percent of update_metrics / monitor_loop, unrounded
usage_percent(size) ==
  IF max_size_bytes > 0 THEN [num |-> size * 100, den |-> max_size_bytes]
                        ELSE [num |-> 0, den |-> 1]

\* int(max_size_bytes * CLEANUP_THRESHOLD_PERCENT / 100), operands non-negative
ThresholdBytes(maxb, pct) == (maxb * pct) \div 100

\* ------------------------------------------------- the metrics text file
\* A rendered number: its integer part and the digits after the point.
FormatInt(n) == [whole |-> n, frac |-> << >>]

\* f"{x:.2f}" of the fraction x: exactly two digits after the point
Format2f(x) ==
  LET h == RoundHalfEven(100 * x.num, x.den)
  IN  [whole |-> h \div 100, frac |-> << (h \div 10) % 10, h % 10 >>]

\* f"{x}" of a float already rounded to two decimals (h hundredths):
\* repr prints the shortest form, so 0.50 is "0.5" and 1.00 is "1.0"
FormatFloat(h) ==
  [whole |-> h \div 100,
   frac  |-> IF h % 10 = 0 THEN << (h \div 10) % 10 >>
                           ELSE << (h \div 10) % 10, h % 10 >>]

Pow10(k) == IF k = 0 THEN 1 ELSE 10 * (IF k = 1 THEN 1 ELSE 10)

DigitsValue(f) ==
  IF Len(f) = 0 THEN 0 ELSE IF Len(f) = 1 THEN f[1] ELSE 10 * f[1] + f[2]

\* reading a rendered number back as a fraction
ParseValue(t) ==
  [num |-> t.whole * Pow10(Len(t.frac)) + DigitsValue(t.frac),
   den |-> Pow10(Len(t.frac))]

SampleLine(n, t) == [name |-> n, text |-> t]

\* the sample lines of metrics_content (HELP/TYPE comment lines carry no data)
metrics_content(size) ==
  << SampleLine("loki_data_size_bytes", FormatInt(size)),
     SampleLine("loki_data_size_gb", FormatFloat(bytes_to_gb(size))),
     SampleLine("loki_max_size_bytes", FormatInt(max_size_bytes)),
     SampleLine("loki_usage_percent", Format2f(usage_percent(size))),
     SampleLine("loki_metrics_available", FormatInt(1)) >>

\* open(metrics_file, 'w'): what is left of the old content
OpenForWrite(old) == << >>

\* values a scraper of the file reads for one metric name
Samples(f, n) == { ParseValue(f[i].text) : i \in { j \in DOMAIN f : f[j].name = n } }
SampleCount(f, n) == Cardinality({ j \in DOMAIN f : f[j].name = n })

\* ---------------------------------------------------------- the backend
Accepted == {200, 202, 204}
Raised == [raised |-> TRUE, status |-> 0]        \* requests raised: error or timeout
NoCall == [raised |-> FALSE, status |-> 0]       \* request not made
Responses(codes) == { [raised |-> FALSE, status |-> c] : c \in codes } \cup {Raised}

ReadyResponses == Responses({200, 503})
DeleteResponses == Responses({200, 202, 204, 400, 500})
CompactionResponses == Responses({200, 500})

\* is_loki_healthy: status 200, anything else (also an exception) is False
is_loki_healthy(r) == ~r.raised /\ r.status = 200

InitialGauges == [bytes |-> 0, gb |-> 0, max |-> 0, pct |-> [num |-> 0, den |-> 1]]

\* scraped holds the response of the scrape being served; the next step of the
\* monitor thread finds it delivered
NoScrape == [bytes |-> 0 - 1, gb |-> 0, max |-> 0, pct |-> [num |-> 0, den |-> 1]]
ScrapeServed == scraped' = NoScrape

\* ----------------------------------------------------------------- Init
\* the monitor process before main runs
MonitorInitial ==
  /\ pc = "main"
  /\ exitCode = 0
  /\ MAX_SIZE_GB \in MaxSizeChoices
  /\ CLEANUP_THRESHOLD_PERCENT \in ThresholdChoices
  /\ METRICS_OUTPUT_DIR = "unknown"
  /\ fallback_dir = "unknown"
  /\ max_size_bytes = 0
  /\ threshold_bytes = 0
  /\ metrics_dir = "none"
  /\ fallbackAttempts = 0
  /\ loki_data_size_bytes = 0
  /\ loki_data_size_gb = 0
  /\ loki_max_size_bytes = 0
  /\ loki_usage_percent = [num |-> 0, den |-> 1]
  /\ loki_cleanup_operations = 0
  /\ loki_cleanup_errors = 0
  /\ metrics_file = << >>
  /\ lastWrite = "none"
  /\ current_size_bytes = 0
  /\ measured = FALSE
  /\ iter = 0
  /\ cleanupCalls = 0
  /\ excCaught = FALSE
  /\ prevExc = FALSE
  /\ health = NoCall
  /\ del = NoCall
  /\ comp = NoCall
  /\ nDelete = 0
  /\ nCompact = 0
  /\ ret = "none"
  /\ ops0 = 0
  /\ errs0 = 0
  /\ scraped = NoScrape
  /\ CHECK_INTERVAL \in IntervalChoices
  /\ scanError = FALSE
  /\ warned = FALSE
  /\ nHealth = 0
  /\ win_start = 0
  /\ win_end = 0
  /\ req_utc = 0
  /\ graceSlept = FALSE
  /\ totalCalls = 0
  /\ totalTrue = 0
  /\ interrupted = FALSE

\* the dashboard script is a separate program; it is not run here
Init ==
  /\ MonitorInitial
  /\ dash_pc = "idle"
  /\ dashboard = << >>
  /\ fixed_panels = << >>
  /\ fixed_again = << >>

\* -------------------------------------------------------------- startup
\* main: start_http_server binds the port, or raises and main exits 1
StartHttpServer ==
  /\ pc = "main"
  /\ \E bound \in BOOLEAN :
       IF bound THEN pc' = "init" /\ exitCode' = exitCode
                ELSE pc' = "exit" /\ exitCode' = 1
  /\ UNCHANGED << envVars, objVars, gaugeVars, counterVars, fileVars, iterVars,
                  callVars >>
  /\ UNCHANGED << staticVars, scanError, probeVars, windowVars, graceSlept, tallyVars,
                  interrupted >>
  /\ ScrapeServed

\* LokiStorageMonitor.__init__: sizes, then the metrics directory.  The
\* filesystem answers when asked: mkdir and the write-then-delete probe
\* succeed on a writable configured directory; otherwise the handler makes
\* /tmp/loki_metrics with mkdir(exist_ok=True) alone, which succeeds on an
\* existing read-only directory too, and a failing mkdir there leaves
\* __init__ through main's handler (exit 1).
MonitorInit ==
  /\ pc = "init"
  /\ max_size_bytes' = MAX_SIZE_GB
  /\ threshold_bytes' = ThresholdBytes(MAX_SIZE_GB, CLEANUP_THRESHOLD_PERCENT)
  /\ \/ /\ METRICS_OUTPUT_DIR' = "writable"
        /\ fallback_dir' = fallback_dir
        /\ metrics_dir' = "configured"
        /\ fallbackAttempts' = 0
        /\ pc' = "measure"
        /\ exitCode' = exitCode
     \/ /\ METRICS_OUTPUT_DIR' = "unwritable"
        /\ metrics_dir' = "fallback"
        /\ fallbackAttempts' = 1
        /\ \E st \in {"writable", "readonly", "nomkdir"} :
             /\ fallback_dir' = st
             /\ IF st = "nomkdir"
                  THEN pc' = "exit" /\ exitCode' = 1
                  ELSE pc' = "measure" /\ exitCode' = exitCode
  /\ UNCHANGED << MAX_SIZE_GB, CLEANUP_THRESHOLD_PERCENT, gaugeVars, counterVars,
                  fileVars, iterVars, callVars >>
  /\ UNCHANGED << staticVars, scanError, probeVars, windowVars, graceSlept, tallyVars,
                  interrupted >>
  /\ ScrapeServed

\* the directory self.metrics_dir names can be written to
DirWritable ==
  \/ metrics_dir = "configured" /\ METRICS_OUTPUT_DIR = "writable"
  \/ metrics_dir = "fallback" /\ fallback_dir = "writable"

\* ------------------------------------------------------ one loop iteration
\* variant: a traversal error returns the total summed so far
GetDirectorySize_partialOnError ==
  /\ pc = "measure"
  /\ \E size \in 0 .. MaxBytes :
       /\ current_size_bytes' = size
       /\ scanError' \in BOOLEAN
  /\ measured' = TRUE
  /\ iter' = iter + 1
  /\ cleanupCalls' = 0
  /\ prevExc' = excCaught
  /\ excCaught' = FALSE
  /\ pc' = "set_bytes"
  /\ UNCHANGED << exitCode, envVars, objVars, gaugeVars, counterVars, fileVars >>
  /\ health' = NoCall /\ del' = NoCall /\ comp' = NoCall
  /\ nDelete' = 0 /\ nCompact' = 0 /\ ret' = "none"
  /\ ops0' = loki_cleanup_operations /\ errs0' = loki_cleanup_errors
  /\ warned' = FALSE /\ nHealth' = 0
  /\ win_start' = 0 /\ win_end' = 0 /\ req_utc' = 0
  /\ graceSlept' = FALSE
  /\ UNCHANGED << staticVars, tallyVars, interrupted >>
  /\ ScrapeServed

\* get_directory_size: the sum of the file sizes (try, lines 73-77), or, when
\* the traversal raises, the handler's "return 0" (lines 78-80)
GetDirectorySize ==
  /\ pc = "measure"
  /\ \/ \E size \in 0 .. MaxBytes :
          /\ current_size_bytes' = size
          /\ scanError' = FALSE
     \/ /\ current_size_bytes' = 0
        /\ scanError' = TRUE
  /\ measured' = TRUE
  /\ iter' = iter + 1
  /\ cleanupCalls' = 0
  /\ prevExc' = excCaught
  /\ excCaught' = FALSE
  /\ pc' = "set_bytes"
  /\ UNCHANGED << exitCode, envVars, objVars, gaugeVars, counterVars, fileVars >>
  /\ health' = NoCall /\ del' = NoCall /\ comp' = NoCall
  /\ nDelete' = 0 /\ nCompact' = 0 /\ ret' = "none"
  /\ ops0' = loki_cleanup_operations /\ errs0' = loki_cleanup_errors
  /\ warned' = FALSE /\ nHealth' = 0
  /\ win_start' = 0 /\ win_end' = 0 /\ req_utc' = 0
  /\ graceSlept' = FALSE
  /\ UNCHANGED << staticVars, tallyVars, interrupted >>
  /\ ScrapeServed

\* variant: the loop has no handler and the exception ends the process
BodyException_terminates ==
  /\ pc = "measure"
  /\ measured' = FALSE
  /\ iter' = iter + 1
  /\ cleanupCalls' = 0
  /\ prevExc' = excCaught
  /\ excCaught' = TRUE
  /\ pc' = "exit"
  /\ exitCode' = 1
  /\ UNCHANGED << envVars, objVars, gaugeVars, counterVars, fileVars,
                  current_size_bytes >>
  /\ health' = NoCall /\ del' = NoCall /\ comp' = NoCall
  /\ nDelete' = 0 /\ nCompact' = 0 /\ ret' = "none"
  /\ ops0' = loki_cleanup_operations /\ errs0' = loki_cleanup_errors
  /\ scanError' = FALSE
  /\ warned' = FALSE /\ nHealth' = 0
  /\ win_start' = 0 /\ win_end' = 0 /\ req_utc' = 0
  /\ graceSlept' = FALSE
  /\ UNCHANGED << staticVars, tallyVars, interrupted >>
  /\ ScrapeServed

\* an exception that escapes the body of the iteration before a size is
\* obtained: "except Exception" at the loop boundary logs it and falls
\* through to the poll-interval sleep
BodyException ==
  /\ pc = "measure"
  /\ measured' = FALSE
  /\ iter' = iter + 1
  /\ cleanupCalls' = 0
  /\ prevExc' = excCaught
  /\ excCaught' = TRUE
  /\ pc' = "poll_sleep"
  /\ UNCHANGED << exitCode, envVars, objVars, gaugeVars, counterVars, fileVars,
                  current_size_bytes >>
  /\ health' = NoCall /\ del' = NoCall /\ comp' = NoCall
  /\ nDelete' = 0 /\ nCompact' = 0 /\ ret' = "none"
  /\ ops0' = loki_cleanup_operations /\ errs0' = loki_cleanup_errors
  /\ scanError' = FALSE
  /\ warned' = FALSE /\ nHealth' = 0
  /\ win_start' = 0 /\ win_end' = 0 /\ req_utc' = 0
  /\ graceSlept' = FALSE
  /\ UNCHANGED << staticVars, tallyVars, interrupted >>
  /\ ScrapeServed

\* update_metrics, one gauge at a time (each set is atomic on its own)
SetDataSizeBytes ==
  /\ pc = "set_bytes"
  /\ loki_data_size_bytes' = current_size_bytes
  /\ pc' = "set_gb"
  /\ UNCHANGED << exitCode, envVars, objVars, loki_data_size_gb, loki_max_size_bytes,
                  loki_usage_percent, counterVars, fileVars, iterVars, callVars >>
  /\ UNCHANGED << staticVars, scanError, probeVars, windowVars, graceSlept, tallyVars,
                  interrupted >>
  /\ ScrapeServed

SetDataSizeGb ==
  /\ pc = "set_gb"
  /\ loki_data_size_gb' = bytes_to_gb(current_size_bytes)
  /\ pc' = "set_max"
  /\ UNCHANGED << exitCode, envVars, objVars, loki_data_size_bytes,
                  loki_max_size_bytes, loki_usage_percent, counterVars, fileVars,
                  iterVars, callVars >>
  /\ UNCHANGED << staticVars, scanError, probeVars, windowVars, graceSlept, tallyVars,
                  interrupted >>
  /\ ScrapeServed

SetMaxSizeBytes ==
  /\ pc = "set_max"
  /\ loki_max_size_bytes' = max_size_bytes
  /\ pc' = "set_pct"
  /\ UNCHANGED << exitCode, envVars, objVars, loki_data_size_bytes, loki_data_size_gb,
                  loki_usage_percent, counterVars, fileVars, iterVars, callVars >>
  /\ UNCHANGED << staticVars, scanError, probeVars, windowVars, graceSlept, tallyVars,
                  interrupted >>
  /\ ScrapeServed

SetUsagePercent ==
  /\ pc = "set_pct"
  /\ loki_usage_percent' = usage_percent(current_size_bytes)
  /\ pc' = "write_file"
  /\ UNCHANGED << exitCode, envVars, objVars, loki_data_size_bytes, loki_data_size_gb,
                  loki_max_size_bytes, counterVars, fileVars, iterVars, callVars >>
  /\ UNCHANGED << staticVars, scanError, probeVars, windowVars, graceSlept, tallyVars,
                  interrupted >>
  /\ ScrapeServed

\* variant: the file is written without try/except, a failure reaches the
\* loop boundary and the threshold check of the iteration is skipped
WriteMetricsFile_propagates ==
  /\ pc = "write_file"
  /\ LET content == metrics_content(current_size_bytes)
     IN  \/ /\ DirWritable
            /\ metrics_file' = OpenForWrite(metrics_file) \o content
            /\ lastWrite' = "ok"
            /\ pc' = "check"
            /\ excCaught' = excCaught
         \/ /\ ~DirWritable
            /\ metrics_file' = metrics_file
            /\ lastWrite' = "failed"
            /\ pc' = "poll_sleep"
            /\ excCaught' = TRUE
         \/ /\ DirWritable
            /\ metrics_file' = OpenForWrite(metrics_file)
            /\ lastWrite' = "failed"
            /\ pc' = "poll_sleep"
            /\ excCaught' = TRUE
  /\ UNCHANGED << exitCode, envVars, objVars, gaugeVars, counterVars,
                  current_size_bytes, measured, iter, cleanupCalls, prevExc,
                  callVars >>
  /\ UNCHANGED << staticVars, scanError, probeVars, windowVars, graceSlept, tallyVars,
                  interrupted >>
  /\ ScrapeServed

\* update_metrics, the file: open(..., 'w') and write inside try/except.
\* open fails on an unwritable directory (file untouched); the write can fail
\* after the open truncated the file (the content is flushed in one piece at
\* close, so the file is left empty); either exception is logged and
\* update_metrics returns normally.
WriteMetricsFile ==
  /\ pc = "write_file"
  /\ LET content == metrics_content(current_size_bytes)
     IN  \/ /\ DirWritable
            /\ metrics_file' = OpenForWrite(metrics_file) \o content
            /\ lastWrite' = "ok"
         \/ /\ ~DirWritable
            /\ metrics_file' = metrics_file
            /\ lastWrite' = "failed"
         \/ /\ DirWritable
            /\ metrics_file' = OpenForWrite(metrics_file)
            /\ lastWrite' = "failed"
  /\ pc' = "check"
  /\ UNCHANGED << exitCode, envVars, objVars, gaugeVars, counterVars, iterVars,
                  callVars >>
  /\ UNCHANGED << staticVars, scanError, probeVars, windowVars, graceSlept, tallyVars,
                  interrupted >>
  /\ ScrapeServed

\* variant: the comparison is not strict
NeedsCleanup_inclusive(size) == size >= threshold_bytes

\* monitor_loop: if current_size_bytes > self.threshold_bytes
NeedsCleanup(size) == size > threshold_bytes

ThresholdCheck ==
  /\ pc = "check"
  /\ IF NeedsCleanup(current_size_bytes)
       THEN /\ pc' = "tc_health"
            /\ cleanupCalls' = cleanupCalls + 1
       ELSE /\ pc' = "poll_sleep"
            /\ cleanupCalls' = cleanupCalls
  /\ UNCHANGED << exitCode, envVars, objVars, gaugeVars, counterVars, fileVars,
                  current_size_bytes, measured, iter, excCaught, prevExc, callVars >>
  /\ totalCalls' = IF NeedsCleanup(current_size_bytes) THEN totalCalls + 1 ELSE totalCalls
  /\ UNCHANGED << staticVars, scanError, probeVars, windowVars, graceSlept, totalTrue,
                  interrupted >>
  /\ ScrapeServed

\* ------------------------------------------------------- trigger_cleanup
\* variant: an unhealthy backend is counted as a cleanup error
CleanupHealth_countsError ==
  /\ pc = "tc_health"
  /\ \E r \in ReadyResponses :
       /\ health' = r
       /\ warned' = r.raised
       /\ IF is_loki_healthy(r)
            THEN pc' = "tc_delete" /\ ret' = ret
                 /\ loki_cleanup_errors' = loki_cleanup_errors
            ELSE pc' = "tc_done" /\ ret' = "false"
                 /\ loki_cleanup_errors' = loki_cleanup_errors + 1
  /\ UNCHANGED << exitCode, envVars, objVars, gaugeVars, loki_cleanup_operations,
                  fileVars, iterVars, del, comp, nDelete, nCompact, ops0, errs0 >>
  /\ nHealth' = nHealth + 1
  /\ UNCHANGED << staticVars, scanError, windowVars, graceSlept, tallyVars, interrupted >>
  /\ ScrapeServed

\* variant: the readiness request has no timeout, a backend that does not
\* answer blocks the call for ever
CleanupHealth_noTimeout ==
  /\ pc = "tc_health"
  /\ \E r \in ReadyResponses :
       /\ health' = r
       /\ warned' = FALSE
       /\ IF is_loki_healthy(r)
            THEN pc' = "tc_delete" /\ ret' = ret
            ELSE IF r.raised THEN pc' = "tc_blocked" /\ ret' = ret
                             ELSE pc' = "tc_done" /\ ret' = "false"
  /\ UNCHANGED << exitCode, envVars, objVars, gaugeVars, counterVars, fileVars,
                  iterVars, del, comp, nDelete, nCompact, ops0, errs0 >>
  /\ nHealth' = nHealth + 1
  /\ UNCHANGED << staticVars, scanError, windowVars, graceSlept, tallyVars, interrupted >>
  /\ ScrapeServed

\* GET /ready; an unhealthy backend ends the call with False.  is_loki_healthy
\* logs its warning in the except branch only (lines 91-92)
CleanupHealth ==
  /\ pc = "tc_health"
  /\ \E r \in ReadyResponses :
       /\ health' = r
       /\ warned' = r.raised
       /\ IF is_loki_healthy(r)
            THEN pc' = "tc_delete" /\ ret' = ret
            ELSE pc' = "tc_done" /\ ret' = "false"
  /\ UNCHANGED << exitCode, envVars, objVars, gaugeVars, counterVars, fileVars,
                  iterVars, del, comp, nDelete, nCompact, ops0, errs0 >>
  /\ nHealth' = nHealth + 1
  /\ UNCHANGED << staticVars, scanError, windowVars, graceSlept, tallyVars, interrupted >>
  /\ ScrapeServed

\* datetime.now(): the naive local time of the host, tz seconds ahead of UTC
LocalNow(utc, tz) == utc + tz

\* variant: only a rejected status is counted, an exception of the request is not
CleanupDelete_exceptionUncounted ==
  /\ pc = "tc_delete"
  /\ \E r \in DeleteResponses :
       /\ del' = r
       /\ \E t \in ClockChoices, tz \in TzOffsets, step \in 0 .. MaxClockStep :
            /\ win_end' = LocalNow(t, tz) - END_DAYS * SecondsPerDay
            /\ win_start' = LocalNow(t + step, tz) - START_DAYS * SecondsPerDay
            /\ req_utc' = t + step
       /\ nDelete' = nDelete + 1
       /\ IF ~r.raised /\ r.status \in Accepted
            THEN /\ pc' = "tc_compact"
                 /\ UNCHANGED << loki_cleanup_errors, ret >>
            ELSE /\ loki_cleanup_errors' =
                      IF r.raised THEN loki_cleanup_errors ELSE loki_cleanup_errors + 1
                 /\ ret' = "false"
                 /\ pc' = "tc_done"
  /\ UNCHANGED << exitCode, envVars, objVars, gaugeVars, loki_cleanup_operations,
                  fileVars, iterVars, health, comp, nCompact, ops0, errs0 >>
  /\ UNCHANGED << staticVars, scanError, probeVars, graceSlept, tallyVars, interrupted >>
  /\ ScrapeServed

\* variant: a failed delete is retried once, probe included, inside the call
CleanupDelete_retries ==
  /\ pc = "tc_delete"
  /\ \E r \in DeleteResponses :
       /\ del' = r
       /\ \E t \in ClockChoices, tz \in TzOffsets, step \in 0 .. MaxClockStep :
            /\ win_end' = LocalNow(t, tz) - END_DAYS * SecondsPerDay
            /\ win_start' = LocalNow(t + step, tz) - START_DAYS * SecondsPerDay
            /\ req_utc' = t + step
       /\ nDelete' = nDelete + 1
       /\ IF ~r.raised /\ r.status \in Accepted
            THEN /\ pc' = "tc_compact"
                 /\ UNCHANGED << loki_cleanup_errors, ret >>
            ELSE IF nDelete = 0
                   THEN /\ pc' = "tc_health"
                        /\ UNCHANGED << loki_cleanup_errors, ret >>
                   ELSE /\ loki_cleanup_errors' = loki_cleanup_errors + 1
                        /\ ret' = "false"
                        /\ pc' = "tc_done"
  /\ UNCHANGED << exitCode, envVars, objVars, gaugeVars, loki_cleanup_operations,
                  fileVars, iterVars, health, comp, nCompact, ops0, errs0 >>
  /\ UNCHANGED << staticVars, scanError, probeVars, graceSlept, tallyVars, interrupted >>
  /\ ScrapeServed

\* The window, then POST /loki/api/v1/delete.  end_date and start_date come
\* from two datetime.now() calls (lines 103, 104) and strftime appends a
\* literal "Z", so the receiver reads the local wall-clock value as UTC.
\* A status outside 200/202/204 and an exception (outer handler) both count
\* one error and end the call with False
CleanupDelete ==
  /\ pc = "tc_delete"
  /\ \E r \in DeleteResponses :
       /\ del' = r
       /\ \E t \in ClockChoices, tz \in TzOffsets, step \in 0 .. MaxClockStep :
            /\ win_end' = LocalNow(t, tz) - END_DAYS * SecondsPerDay
            /\ win_start' = LocalNow(t + step, tz) - START_DAYS * SecondsPerDay
            /\ req_utc' = t + step
       /\ nDelete' = nDelete + 1
       /\ IF ~r.raised /\ r.status \in Accepted
            THEN /\ pc' = "tc_compact"
                 /\ UNCHANGED << loki_cleanup_errors, ret >>
            ELSE /\ loki_cleanup_errors' = loki_cleanup_errors + 1
                 /\ ret' = "false"
                 /\ pc' = "tc_done"
  /\ UNCHANGED << exitCode, envVars, objVars, gaugeVars, loki_cleanup_operations,
                  fileVars, iterVars, health, comp, nCompact, ops0, errs0 >>
  /\ UNCHANGED << staticVars, scanError, probeVars, graceSlept, tallyVars, interrupted >>
  /\ ScrapeServed

\* variant: the compaction request has no try/except of its own, its
\* exception reaches the outer handler of trigger_cleanup
CleanupCompact_propagates ==
  /\ pc = "tc_compact"
  /\ \E r \in CompactionResponses :
       /\ comp' = r
       /\ IF r.raised
            THEN /\ loki_cleanup_errors' = loki_cleanup_errors + 1
                 /\ loki_cleanup_operations' = loki_cleanup_operations
                 /\ ret' = "false"
            ELSE /\ loki_cleanup_operations' = loki_cleanup_operations + 1
                 /\ loki_cleanup_errors' = loki_cleanup_errors
                 /\ ret' = "true"
  /\ nCompact' = nCompact + 1
  /\ pc' = "tc_done"
  /\ UNCHANGED << exitCode, envVars, objVars, gaugeVars, fileVars, iterVars,
                  health, del, nDelete, ops0, errs0 >>
  /\ totalTrue' = IF ret' = "true" THEN totalTrue + 1 ELSE totalTrue
  /\ UNCHANGED << staticVars, scanError, probeVars, windowVars, graceSlept, totalCalls,
                  interrupted >>
  /\ ScrapeServed

\* variant: a failed compaction is counted as a cleanup error as well
CleanupCompact_failureCounted ==
  /\ pc = "tc_compact"
  /\ \E r \in CompactionResponses :
       /\ comp' = r
       /\ loki_cleanup_errors' =
            IF r.raised \/ r.status # 200 THEN loki_cleanup_errors + 1
                                          ELSE loki_cleanup_errors
  /\ nCompact' = nCompact + 1
  /\ loki_cleanup_operations' = loki_cleanup_operations + 1
  /\ ret' = "true"
  /\ pc' = "tc_done"
  /\ UNCHANGED << exitCode, envVars, objVars, gaugeVars, fileVars, iterVars,
                  health, del, nDelete, ops0, errs0 >>
  /\ totalTrue' = totalTrue + 1
  /\ UNCHANGED << staticVars, scanError, probeVars, windowVars, graceSlept, totalCalls,
                  interrupted >>
  /\ ScrapeServed

\* POST /compactor/ring inside its own try/except: any status and any
\* exception are only logged; then operations.inc() and return True
CleanupCompact ==
  /\ pc = "tc_compact"
  /\ \E r \in CompactionResponses : comp' = r
  /\ nCompact' = nCompact + 1
  /\ loki_cleanup_operations' = loki_cleanup_operations + 1
  /\ ret' = "true"
  /\ pc' = "tc_done"
  /\ UNCHANGED << exitCode, envVars, objVars, gaugeVars, loki_cleanup_errors,
                  fileVars, iterVars, health, del, nDelete, ops0, errs0 >>
  /\ totalTrue' = totalTrue + 1
  /\ UNCHANGED << staticVars, scanError, probeVars, windowVars, graceSlept, totalCalls,
                  interrupted >>
  /\ ScrapeServed

\* variant: the grace sleep does not depend on the result of trigger_cleanup
AfterCleanup_alwaysGrace ==
  /\ pc = "tc_done"
  /\ pc' = "grace_sleep"
  /\ UNCHANGED << exitCode, envVars, objVars, gaugeVars, counterVars, fileVars,
                  iterVars, callVars >>
  /\ UNCHANGED << staticVars, scanError, probeVars, windowVars, graceSlept, tallyVars,
                  interrupted >>
  /\ ScrapeServed

\* monitor_loop: if self.trigger_cleanup(): ... time.sleep(60)
AfterCleanup ==
  /\ pc = "tc_done"
  /\ pc' = IF ret = "true" THEN "grace_sleep" ELSE "poll_sleep"
  /\ UNCHANGED << exitCode, envVars, objVars, gaugeVars, counterVars, fileVars,
                  iterVars, callVars >>
  /\ UNCHANGED << staticVars, scanError, probeVars, windowVars, graceSlept, tallyVars,
                  interrupted >>
  /\ ScrapeServed

GraceSleep ==
  /\ pc = "grace_sleep"
  /\ pc' = "poll_sleep"
  /\ UNCHANGED << exitCode, envVars, objVars, gaugeVars, counterVars, fileVars,
                  iterVars, callVars >>
  /\ graceSlept' = TRUE
  /\ UNCHANGED << staticVars, scanError, probeVars, windowVars, tallyVars, interrupted >>
  /\ ScrapeServed

\* time.sleep(CHECK_INTERVAL), then the next pass of while True
PollSleep ==
  /\ pc = "poll_sleep"
  /\ iter < MaxIter
  /\ pc' = "measure"
  /\ UNCHANGED << exitCode, envVars, objVars, gaugeVars, counterVars, fileVars,
                  iterVars, callVars >>
  /\ UNCHANGED << staticVars, scanError, probeVars, windowVars, graceSlept, tallyVars,
                  interrupted >>
  /\ ScrapeServed

\* --------------------------------------------------- exposition endpoint
\* a scrape, served by the HTTP server thread at any moment after it started
Scrape ==
  /\ pc \notin {"main", "exit"}
  /\ scraped' = [bytes |-> loki_data_size_bytes, gb |-> loki_data_size_gb,
                 max |-> loki_max_size_bytes, pct |-> loki_usage_percent]
  /\ UNCHANGED << pc, exitCode, envVars, objVars, gaugeVars, counterVars, fileVars,
                  iterVars, callVars >>
  /\ UNCHANGED << staticVars, scanError, probeVars, windowVars, graceSlept, tallyVars,
                  interrupted >>

\* variant: the interrupt is handled like any other error of main (exit 1)
Interrupt_asFatal ==
  /\ pc # "exit"
  /\ pc' = "exit"
  /\ exitCode' = 1
  /\ interrupted' = TRUE
  /\ UNCHANGED << envVars, objVars, gaugeVars, counterVars, fileVars, iterVars,
                  callVars, staticVars, scanError, probeVars, windowVars, graceSlept,
                  tallyVars >>
  /\ ScrapeServed

\* ------------------------------------------------------------- interrupt
\* KeyboardInterrupt (Ctrl-C, SIGINT) can arrive at any statement.  It is not
\* an Exception, so no "except Exception" of the monitor catches it; main's
\* "except KeyboardInterrupt" logs and main returns: exit status 0.
Interrupt ==
  /\ pc # "exit"
  /\ pc' = "exit"
  /\ exitCode' = 0
  /\ interrupted' = TRUE
  /\ UNCHANGED << envVars, objVars, gaugeVars, counterVars, fileVars, iterVars,
                  callVars, staticVars, scanError, probeVars, windowVars, graceSlept,
                  tallyVars >>
  /\ ScrapeServed

Next ==
  \/ StartHttpServer
  \/ MonitorInit
  \/ GetDirectorySize
  \/ BodyException
  \/ SetDataSizeBytes
  \/ SetDataSizeGb
  \/ SetMaxSizeBytes
  \/ SetUsagePercent
  \/ WriteMetricsFile
  \/ ThresholdCheck
  \/ CleanupHealth
  \/ CleanupDelete
  \/ CleanupCompact
  \/ AfterCleanup
  \/ GraceSleep
  \/ PollSleep
  \/ Scrape
  \/ Interrupt

Spec == Init /\ [][Next]_vars

\* the steps of the monitor thread (main, __init__, monitor_loop)
MonitorNext ==
  \/ StartHttpServer
  \/ MonitorInit
  \/ GetDirectorySize
  \/ BodyException
  \/ SetDataSizeBytes
  \/ SetDataSizeGb
  \/ SetMaxSizeBytes
  \/ SetUsagePercent
  \/ WriteMetricsFile
  \/ ThresholdCheck
  \/ CleanupHealth
  \/ CleanupDelete
  \/ CleanupCompact
  \/ AfterCleanup
  \/ GraceSleep
  \/ PollSleep

\* The monitor thread keeps running: every request carries a timeout (lines
\* 89, 119, 129) and every sleep is timed (211, 221), so its next step is
\* eventually taken.  Nothing is assumed of scrapes and interrupts.
\* Progress does not depend on the configured numbers, so the fair
\* specification starts from the default threshold percent and poll interval
\* (lines 21, 22) and a quota of 3 GB, under which sizes fall on both sides
\* of the threshold.
DEFAULT_THRESHOLD_PERCENT == 80
DEFAULT_CHECK_INTERVAL == 300
LiveInit ==
  /\ Init
  /\ MAX_SIZE_GB = 3
  /\ CLEANUP_THRESHOLD_PERCENT = DEFAULT_THRESHOLD_PERCENT
  /\ CHECK_INTERVAL = DEFAULT_CHECK_INTERVAL

FairSpec == LiveInit /\ [][Next]_vars /\ WF_vars(MonitorNext)

\* ====================================================== fix_dashboard.py
\* Strings are sequences of one-character strings.
MaxExprLen == 2        \* longest generated query expression
MaxTargets == 2        \* most targets in a generated panel

AVAILABLE_METRICS ==
  { << "a", "c", "t", "i", "v", "e", "_", "t", "a", "s", "k", "s" >>,
    << "c", "o", "n", "t", "a", "i", "n", "e", "r", "s", "_", "m", "o", "n", "i", "t", "o", "r", "e", "d" >>,
    << "c", "p", "u", "_", "u", "s", "a", "g", "e", "_", "p", "e", "r", "c", "e", "n", "t" >>,
    << "d", "i", "s", "p", "a", "t", "c", "h", "e", "r", "_", "q", "u", "e", "u", "e", "_", "u", "t", "i", "l", "i", "z", "a", "t", "i", "o", "n" >>,
    << "f", "i", "l", "e", "s", "_", "m", "o", "n", "i", "t", "o", "r", "e", "d" >>,
    << "g", "o", "r", "o", "u", "t", "i", "n", "e", "s" >>,
    << "l", "o", "g", "s", "_", "p", "e", "r", "_", "s", "e", "c", "o", "n", "d" >>,
    << "l", "o", "g", "s", "_", "p", "r", "o", "c", "e", "s", "s", "e", "d", "_", "t", "o", "t", "a", "l" >>,
    << "l", "o", "g", "s", "_", "s", "e", "n", "t", "_", "t", "o", "t", "a", "l" >>,
    << "m", "e", "m", "o", "r", "y", "_", "u", "s", "a", "g", "e", "_", "b", "y", "t", "e", "s" >>,
    << "p", "r", "o", "c", "e", "s", "s", "i", "n", "g", "_", "d", "u", "r", "a", "t", "i", "o", "n", "_", "s", "e", "c", "o", "n", "d", "s", "_", "b", "u", "c", "k", "e", "t" >>,
    << "p", "r", "o", "c", "e", "s", "s", "i", "n", "g", "_", "d", "u", "r", "a", "t", "i", "o", "n", "_", "s", "e", "c", "o", "n", "d", "s", "_", "c", "o", "u", "n", "t" >>,
    << "p", "r", "o", "c", "e", "s", "s", "i", "n", "g", "_", "d", "u", "r", "a", "t", "i", "o", "n", "_", "s", "e", "c", "o", "n", "d", "s", "_", "s", "u", "m" >>,
    << "p", "r", "o", "c", "e", "s", "s", "i", "n", "g", "_", "s", "t", "e", "p", "_", "d", "u", "r", "a", "t", "i", "o", "n", "_", "s", "e", "c", "o", "n", "d", "s", "_", "b", "u", "c", "k", "e", "t" >>,
    << "p", "r", "o", "c", "e", "s", "s", "i", "n", "g", "_", "s", "t", "e", "p", "_", "d", "u", "r", "a", "t", "i", "o", "n", "_", "s", "e", "c", "o", "n", "d", "s", "_", "c", "o", "u", "n", "t" >>,
    << "p", "r", "o", "c", "e", "s", "s", "i", "n", "g", "_", "s", "t", "e", "p", "_", "d", "u", "r", "a", "t", "i", "o", "n", "_", "s", "e", "c", "o", "n", "d", "s", "_", "s", "u", "m" >>,
    << "q", "u", "e", "u", "e", "_", "s", "i", "z", "e" >>,
    << "s", "i", "n", "k", "_", "q", "u", "e", "u", "e", "_", "u", "t", "i", "l", "i", "z", "a", "t", "i", "o", "n" >>,
    << "s", "i", "n", "k", "_", "s", "e", "n", "d", "_", "d", "u", "r", "a", "t", "i", "o", "n", "_", "s", "e", "c", "o", "n", "d", "s", "_", "b", "u", "c", "k", "e", "t" >>,
    << "s", "i", "n", "k", "_", "s", "e", "n", "d", "_", "d", "u", "r", "a", "t", "i", "o", "n", "_", "s", "e", "c", "o", "n", "d", "s", "_", "c", "o", "u", "n", "t" >>,
    << "s", "i", "n", "k", "_", "s", "e", "n", "d", "_", "d", "u", "r", "a", "t", "i", "o", "n", "_", "s", "e", "c", "o", "n", "d", "s", "_", "s", "u", "m" >>,
    << "g", "c", "_", "r", "u", "n", "s", "_", "t", "o", "t", "a", "l" >>,
    << "g", "o", "_", "m", "e", "m", "s", "t", "a", "t", "s", "_", "a", "l", "l", "o", "c", "_", "b", "y", "t", "e", "s" >>,
    << "g", "o", "_", "m", "e", "m", "s", "t", "a", "t", "s", "_", "s", "y", "s", "_", "b", "y", "t", "e", "s" >>,
    << "g", "o", "_", "g", "o", "r", "o", "u", "t", "i", "n", "e", "s" >>,
    << "p", "r", "o", "c", "e", "s", "s", "_", "c", "p", "u", "_", "s", "e", "c", "o", "n", "d", "s", "_", "t", "o", "t", "a", "l" >>,
    << "u", "p" >> }

Whitespace == {" ", "\t", "\n"}

\* str.strip(): drop leading, then trailing whitespace, one character at a time
RECURSIVE lstrip(_)
lstrip(e) == IF e = << >> THEN << >>
             ELSE IF Head(e) \in Whitespace THEN lstrip(Tail(e)) ELSE e
RECURSIVE rstrip(_)
rstrip(e) == IF e = << >> THEN << >>
             ELSE IF e[Len(e)] \in Whitespace THEN rstrip(SubSeq(e, 1, Len(e) - 1)) ELSE e
strip(e) == rstrip(lstrip(e))

\* "metric in expr": try every start position from the left
RECURSIVE FoundFrom(_, _, _)
FoundFrom(metric, expr, i) ==
  IF i + Len(metric) - 1 > Len(expr) THEN FALSE
  ELSE IF SubSeq(expr, i, i + Len(metric) - 1) = metric THEN TRUE
  ELSE FoundFrom(metric, expr, i + 1)
StrIn(metric, expr) == FoundFrom(metric, expr, 1)

\* the loop of lines 56-60: over the set, stop at the first metric found
RECURSIVE AnyMetricIn(_, _)
AnyMetricIn(ms, expr) ==
  IF ms = {} THEN FALSE
  ELSE LET metric == CHOOSE m \in ms : TRUE
       IN  IF StrIn(metric, expr) THEN TRUE ELSE AnyMetricIn(ms \ {metric}, expr)
\* variant: the expression has to be exactly a metric name
uses_available_metric_exact(expr) == expr \in AVAILABLE_METRICS

uses_available_metric(expr) == AnyMetricIn(AVAILABLE_METRICS, expr)

\* target.get('expr', '')
TargetExpr(target) == IF target.hasExpr THEN target.expr ELSE << >>

\* the loop of lines 47-63 over panel['targets']
RECURSIVE valid_targets(_)
valid_targets(targets) ==
  IF targets = << >> THEN << >>
  ELSE LET target == Head(targets)
           expr == strip(TargetExpr(target))
           rest == valid_targets(Tail(targets))
       IN  IF expr = << >> THEN rest
           ELSE IF uses_available_metric(expr) THEN << target >> \o rest
           ELSE rest

\* fix_panel_targets; notes counts the explanatory notes appended to the
\* panel's description
fix_panel_targets(panel) ==
  IF ~panel.hasTargets THEN panel
  ELSE LET valid == valid_targets(panel.targets)
       IN  [panel EXCEPT
              !.targets = valid,
              !.notes = IF valid = << >> /\ panel.type \in {"timeseries", "stat", "gauge"}
                          THEN @ + 1 ELSE @]

\* process_panels: rows that have sub-panels are recursed into, every other
\* panel goes through fix_panel_targets; every panel is appended
RECURSIVE process_panels(_)
process_panels(panels) ==
  IF panels = << >> THEN << >>
  ELSE LET panel == Head(panels)
           done == IF panel.type = "row" /\ panel.hasPanels
                     THEN [panel EXCEPT !.panels = process_panels(panel.panels)]
                     ELSE fix_panel_targets(panel)
       IN  << done >> \o process_panels(Tail(panels))

\* ---------------------------------------------------- dashboards tried
ExprAlphabet == {" ", "u", "p"}
GeneratedExprs == UNION {[1..k -> ExprAlphabet] : k \in 0..MaxExprLen}
FixedExprs ==
  { << "g", "r", "o", "u", "p" >>,
    << " ", "u", "p", " " >>,
    << "f", "o", "o" >>,
    << "g", "o", "r", "o", "u", "t", "i", "n", "e" >>,
    << "g", "o", "_", "g", "o", "r", "o", "u", "t", "i", "n", "e", "s" >>,
    << "r", "a", "t", "e", "(", "l", "o", "g", "s", "_", "s", "e", "n", "t", "_", "t", "o", "t", "a", "l", "[", "5", "m", "]", ")" >> }
ExprChoices == GeneratedExprs \cup FixedExprs
\* "group" (holds the metric name "up") and "foo"
SmallExprChoices == { << "g", "r", "o", "u", "p" >>, << "f", "o", "o" >> }
LeafTypes == {"timeseries", "text"}

SeqsUpTo(S, n) == UNION {[1..k -> S] : k \in 0..n}
\* a target with an 'expr' key for each expression, and one without the key
TargetChoices(exprs) ==
  {[hasExpr |-> TRUE, expr |-> e] : e \in exprs} \cup {[hasExpr |-> FALSE, expr |-> << >>]}
Numbered(ts) ==
  [i \in DOMAIN ts |-> [refId |-> i, hasExpr |-> ts[i].hasExpr, expr |-> ts[i].expr]]
TargetLists(exprs) == {Numbered(ts) : ts \in SeqsUpTo(TargetChoices(exprs), MaxTargets)}

Panel(type, hasTargets, targets, hasPanels, panels) ==
  [id |-> 0, type |-> type, hasTargets |-> hasTargets, targets |-> targets,
   hasPanels |-> hasPanels, panels |-> panels, notes |-> 0]
Leaves(exprs) ==
  {Panel(ty, TRUE, ts, FALSE, << >>) : ty \in LeafTypes, ts \in TargetLists(exprs)}
    \cup {Panel(ty, FALSE, << >>, FALSE, << >>) : ty \in LeafTypes}
\* rows with a 'panels' key (collapsed rows), and rows without one
Rows(exprs) ==
  {Panel("row", FALSE, << >>, TRUE, subs) : subs \in SeqsUpTo(Leaves(exprs), 1)}
    \cup {Panel("row", TRUE, ts, FALSE, << >>) : ts \in TargetLists(exprs)}
SmallPanels == Leaves(SmallExprChoices) \cup Rows(SmallExprChoices)
WithIds(ps) ==
  [i \in DOMAIN ps |->
     [ps[i] EXCEPT !.id = i,
                   !.panels = [j \in DOMAIN ps[i].panels |->
                                 [ps[i].panels[j] EXCEPT !.id = 10 * i + j]]]]
\* one panel with one target, for every expression; and every pair of panels
\* with up to MaxTargets targets over the small expressions
SinglePanels ==
  {Panel(ty, TRUE, Numbered(<< t >>), FALSE, << >>) :
     ty \in LeafTypes, t \in TargetChoices(ExprChoices)}
DashboardChoices ==
  {<< >>} \cup {WithIds(<< p >>) : p \in SinglePanels}
          \cup {WithIds(<< p, q >>) : p \in SmallPanels, q \in SmallPanels}

monitorVars ==
  << pc, exitCode, MAX_SIZE_GB, CLEANUP_THRESHOLD_PERCENT,
     METRICS_OUTPUT_DIR, fallback_dir, max_size_bytes, threshold_bytes,
     metrics_dir, fallbackAttempts, loki_data_size_bytes,
     loki_data_size_gb, loki_max_size_bytes, loki_usage_percent,
     loki_cleanup_operations, loki_cleanup_errors, metrics_file, lastWrite,
     current_size_bytes, measured, iter, cleanupCalls, excCaught, prevExc,
     health, del, comp, nDelete, nCompact, ret, ops0, errs0, scraped,
     CHECK_INTERVAL, scanError, warned, nHealth, win_start, win_end,
     req_utc, graceSlept, totalCalls, totalTrue, interrupted >>

\* the script has read a dashboard; the monitor is a different process
DashInit ==
  /\ MonitorInitial
  /\ MAX_SIZE_GB = 4
  /\ CLEANUP_THRESHOLD_PERCENT = DEFAULT_THRESHOLD_PERCENT
  /\ CHECK_INTERVAL = DEFAULT_CHECK_INTERVAL
  /\ dash_pc = "loaded"
  /\ dashboard \in DashboardChoices
  /\ fixed_panels = << >>
  /\ fixed_again = << >>

\* fix_dashboard: dashboard['panels'] = process_panels(dashboard['panels'])
ProcessPanels ==
  /\ dash_pc = "loaded"
  /\ fixed_panels' = process_panels(dashboard)
  /\ dash_pc' = "processed"
  /\ UNCHANGED << dashboard, fixed_again, monitorVars >>

\* the script run once more, over the panels it produced
ProcessAgain ==
  /\ dash_pc = "processed"
  /\ fixed_again' = process_panels(fixed_panels)
  /\ dash_pc' = "again"
  /\ UNCHANGED << dashboard, fixed_panels, monitorVars >>

DashNext == ProcessPanels \/ ProcessAgain
SpecDash == DashInit /\ [][DashNext]_vars

\* ================================================================ claims
Healthy == is_loki_healthy(health)
Returned == ret # "none"
DeleteAccepted == ~del.raised /\ del.status \in Accepted

\* C1: when the health probe reports unhealthy (non-200 status, network
\* error or timeout) trigger_cleanup returns false, has sent no delete and no
\* compaction request, and both cleanup counters are as they were on entry.
C1_UnhealthySkipsCleanup ==
  (Returned /\ ~Healthy) =>
     /\ ret = "false"
     /\ nDelete = 0 /\ nCompact = 0
     /\ del = NoCall /\ comp = NoCall
     /\ loki_cleanup_operations = ops0
     /\ loki_cleanup_errors = errs0

\* C1 witness: an invocation that found the probe raising, entered with a
\* non-zero error counter
C1_Witness ==
  pc = "tc_done" /\ health.raised /\ ret = "false" /\ errs0 > 0

\* C2: healthy backend and delete status 200, 202 or 204: trigger_cleanup
\* returns true, cleanup-operations grows by exactly 1 and cleanup-errors by
\* 0, whatever the compaction request does (any status or an exception).
C2_AcceptedDeleteSucceeds ==
  (Returned /\ Healthy /\ DeleteAccepted) =>
     /\ ret = "true"
     /\ nDelete = 1 /\ nCompact = 1
     /\ loki_cleanup_operations = ops0 + 1
     /\ loki_cleanup_errors = errs0

\* C2 witness: delete answered 202 and the compaction request raised
C2_Witness ==
  pc = "tc_done" /\ Healthy /\ del.status = 202 /\ comp.raised /\ ret = "true"

\* C3 as stated: healthy backend, and the delete status is outside
\* {200, 202, 204} or an exception is raised anywhere in the sequence (the
\* compaction request included): returns false, cleanup-errors grows by
\* exactly 1, cleanup-operations is unchanged.
C3_Original ==
  (Returned /\ Healthy /\ (del.raised \/ del.status \notin Accepted \/ comp.raised)) =>
     /\ ret = "false"
     /\ loki_cleanup_errors = errs0 + 1
     /\ loki_cleanup_operations = ops0

\* C3 amended: healthy backend, and the delete request raises or answers a
\* status outside {200, 202, 204}: trigger_cleanup returns false to its
\* caller without raising, cleanup-errors grows by exactly 1,
\* cleanup-operations is unchanged and no compaction request is sent.
C3_DeleteFailureCounted ==
  (Returned /\ Healthy /\ (del.raised \/ del.status \notin Accepted)) =>
     /\ ret = "false"
     /\ loki_cleanup_errors = errs0 + 1
     /\ loki_cleanup_operations = ops0
     /\ nDelete = 1 /\ nCompact = 0
     /\ ~excCaught
     /\ (pc = "exit" => interrupted)

\* C3 witness: the delete request raised on a healthy backend
C3_Witness ==
  pc = "tc_done" /\ Healthy /\ del.raised /\ ret = "false"

\* C4: in every iteration that measured a size, trigger_cleanup is invoked
\* exactly once if size > max_size_bytes * threshold_percent / 100 and never
\* if size is at most that; threshold_bytes keeps the value computed from
\* the configuration.
C4_CleanupIffAboveThreshold ==
  LET above == 100 * current_size_bytes > max_size_bytes * CLEANUP_THRESHOLD_PERCENT
  IN  /\ cleanupCalls <= 1
      /\ (metrics_dir # "none") =>
            /\ max_size_bytes = MAX_SIZE_GB
            /\ threshold_bytes = ThresholdBytes(MAX_SIZE_GB, CLEANUP_THRESHOLD_PERCENT)
      /\ (measured /\ ~above) => cleanupCalls = 0
      /\ (measured /\ above /\ pc \in {"tc_health", "tc_delete", "tc_compact",
                                       "tc_done", "grace_sleep", "poll_sleep"}) =>
            cleanupCalls = 1

\* C4 witness: an iteration that ended after one cleanup call made for a size
\* one byte above the threshold
C4_Witness ==
  /\ pc = "poll_sleep" /\ measured /\ cleanupCalls = 1
  /\ current_size_bytes = threshold_bytes + 1

\* C5: an exception raised in the body of an iteration is caught at the loop
\* boundary: the monitor goes to the poll-interval sleep, the process does
\* not exit, and after the sleep the next iteration starts with a new size
\* measurement (or with another caught exception); only an external
\* interrupt ends the process.
C5_ExceptionDoesNotEndLoop ==
  [][ /\ (excCaught' /\ ~excCaught) => (pc' = "poll_sleep" /\ exitCode' = exitCode)
      /\ (excCaught /\ pc = "poll_sleep" /\ pc' # pc /\ ~interrupted') => pc' = "measure"
      /\ (excCaught /\ pc = "measure" /\ pc' # pc /\ ~interrupted') =>
            \/ pc' = "set_bytes" /\ measured' /\ iter' = iter + 1
            \/ pc' = "poll_sleep" /\ excCaught'
      /\ (excCaught' /\ ~interrupted') => pc' \in {"poll_sleep", "measure"} ]_vars

\* C5 witness: a size was measured in the iteration after a caught exception
C5_Witness ==
  prevExc /\ measured /\ pc = "set_bytes"

\* C6 as stated: a scrape never observes a partial update: the gauges it
\* returns are those of the initial state or all belong to one
\* update_metrics call.
C6_ScrapeSeesWholeUpdate ==
  (scraped # NoScrape) =>
     \/ scraped = InitialGauges
     \/ /\ scraped.gb = bytes_to_gb(scraped.bytes)
        /\ scraped.max = max_size_bytes
        /\ RatEq(scraped.pct, usage_percent(scraped.bytes))

\* C7 as stated: after update_metrics the usage percent of the endpoint gauge
\* and of the file line are the same rounding of 100 * size / max_size_bytes
\* (so they are equal), and the value is 0 when max_size_bytes is 0.
C7_PercentOnePrecision ==
  (pc = "check") =>
     /\ (max_size_bytes = 0 => loki_usage_percent.num = 0)
     /\ (lastWrite = "ok") =>
           \A v \in Samples(metrics_file, "loki_usage_percent") :
              RatEq(v, loki_usage_percent)

\* C8: when the write of the metrics file fails, update_metrics still returns
\* normally to the threshold check of the same iteration, no exception
\* reaches the loop boundary, and the gauges hold the values of that call.
C8_FileFailureContained ==
  [][ (pc = "write_file" /\ pc' # pc /\ ~interrupted' /\ lastWrite' = "failed") =>
         /\ pc' = "check"
         /\ ~excCaught'
         /\ exitCode' = exitCode
         /\ loki_data_size_bytes' = current_size_bytes'
         /\ loki_data_size_gb' = bytes_to_gb(current_size_bytes')
         /\ loki_max_size_bytes' = max_size_bytes'
         /\ loki_usage_percent' = usage_percent(current_size_bytes)' ]_vars

\* C8 witness: the file write failed and a scrape at the threshold check
\* returns the size measured in this iteration
C8_Witness ==
  /\ pc = "check" /\ lastWrite = "failed"
  /\ current_size_bytes > 0
  /\ scraped # NoScrape /\ scraped.bytes = current_size_bytes

\* C9 as stated: after a successful update_metrics(size) the file holds one
\* snapshot, and reading it back gives the size passed in, the usage percent
\* derived from it, and loki_metrics_available 1.
C9_FileRoundTrip ==
  (pc = "check" /\ lastWrite = "ok") =>
     /\ Len(metrics_file) = 5
     /\ \A n \in {"loki_data_size_bytes", "loki_data_size_gb", "loki_max_size_bytes",
                  "loki_usage_percent", "loki_metrics_available"} :
           SampleCount(metrics_file, n) = 1
     /\ \A v \in Samples(metrics_file, "loki_data_size_bytes") :
           RatEq(v, [num |-> current_size_bytes, den |-> 1])
     /\ \A v \in Samples(metrics_file, "loki_usage_percent") :
           RatEq(v, usage_percent(current_size_bytes))
     /\ \A v \in Samples(metrics_file, "loki_metrics_available") :
           RatEq(v, [num |-> 1, den |-> 1])

\* C10 as stated: the configured directory is used exactly when mkdir and the
\* probe succeed on it, otherwise one fallback attempt is made; startup is
\* aborted only when the fallback fails, and whenever startup completes the
\* resolved directory is writable.
C10_ResolvedDirWritable ==
  /\ fallbackAttempts <= 1
  /\ (pc \notin {"main", "init"} /\ metrics_dir # "none") =>
        /\ (metrics_dir = "configured") <=> (METRICS_OUTPUT_DIR = "writable")
        /\ (metrics_dir = "fallback") <=> (fallbackAttempts = 1)
  /\ (pc = "exit" /\ ~interrupted /\ metrics_dir # "none") => fallback_dir = "nomkdir"
  /\ (pc \notin {"main", "init", "exit"}) => DirWritable

\* C11: once the loop runs the process ends only by an external interrupt,
\* and an interrupt always ends it with exit status 0; a non-zero status
\* comes only from a failed startup step (port bind, fallback mkdir), never
\* from a poll cycle.
C11_ExitOnlyByInterruptOrStartup ==
  [][ (pc # "exit" /\ pc' = "exit") =>
         /\ (pc \notin {"main", "init"}) => interrupted'
         /\ interrupted' => exitCode' = 0
         /\ ~interrupted' => (exitCode' # 0 /\ pc \in {"main", "init"} /\ iter' = 0) ]_vars

\* C11 witness: the process was interrupted in the sleep of an iteration whose
\* body had raised, and exited with status 0
C11_Witness ==
  pc = "exit" /\ interrupted /\ exitCode = 0 /\ excCaught /\ iter >= 1

\* C12: a traversal error makes get_directory_size return 0 without raising;
\* the cycle exports size 0 and does not invoke trigger_cleanup.
C12_TraversalErrorGivesZero ==
  scanError =>
     /\ measured /\ current_size_bytes = 0
     /\ ~excCaught
     /\ cleanupCalls = 0
     /\ pc \notin {"tc_health", "tc_delete", "tc_compact", "tc_done", "grace_sleep"}
     /\ (pc \in {"check", "poll_sleep"}) =>
           /\ loki_data_size_bytes = 0
           /\ loki_usage_percent.num = 0
           /\ (lastWrite = "ok") =>
                 \A v \in Samples(metrics_file, "loki_data_size_bytes") : v.num = 0

\* C12 witness: after a cycle that cleaned up, the scan of the next cycle
\* failed and the cycle ended having exported 0
C12_Witness ==
  /\ scanError /\ pc = "poll_sleep" /\ iter = 2
  /\ loki_cleanup_operations > 0 /\ loki_data_size_bytes = 0

\* C13 as stated: is_loki_healthy is true only for status 200; for every
\* network error, timeout or other status it is false and a warning has been
\* logged.
C13_UnhealthyWarns ==
  /\ (nHealth > 0 /\ Healthy) => (~health.raised /\ health.status = 200)
  /\ (nHealth > 0 /\ ~Healthy) => (warned /\ pc # "tc_delete" /\ nDelete = 0)

\* C14 as stated: every delete request carries start = now - 7 days and
\* end = now - 3 days as UTC timestamps: the window is exactly 4 days wide
\* and its end is at least 3 days before the UTC moment the request is
\* issued, whatever the local time zone and however the clock advances.
C14_WindowFourDaysUtc ==
  (nDelete > 0) =>
     /\ win_end - win_start = (START_DAYS - END_DAYS) * SecondsPerDay
     /\ win_end <= req_utc - END_DAYS * SecondsPerDay

\* C15 as stated: the timeout of every network call made is strictly
\* shorter than the configured poll interval CHECK_INTERVAL.
C15_TimeoutsBelowInterval ==
  /\ (nHealth > 0) => HEALTH_TIMEOUT < CHECK_INTERVAL
  /\ (nDelete > 0) => DELETE_TIMEOUT < CHECK_INTERVAL
  /\ (nCompact > 0) => COMPACTION_TIMEOUT < CHECK_INTERVAL

CleanupPcs == {"tc_health", "tc_delete", "tc_compact", "tc_done"}

\* C16: an iteration runs measure, export, compare, conditional cleanup,
\* sleep: trigger_cleanup starts only from the threshold check, after the
\* gauges and the file were updated with the size just measured; the 60 s
\* grace sleep runs if and only if trigger_cleanup returned true; a new
\* measurement starts only out of the poll-interval sleep, and the size is
\* not measured again inside the iteration.
C16_IterationOrder ==
  [][ /\ (pc' = "set_bytes" /\ pc' # pc) => (pc = "measure" /\ measured')
      /\ (pc' = "check" /\ pc' # pc) => pc = "write_file"
      /\ (pc' = "tc_health" /\ pc' # pc) =>
            /\ pc = "check"
            /\ loki_data_size_bytes = current_size_bytes
            /\ loki_data_size_gb = bytes_to_gb(current_size_bytes)
            /\ loki_usage_percent = usage_percent(current_size_bytes)
            /\ lastWrite # "none"
            /\ nHealth = 0 /\ nDelete = 0 /\ nCompact = 0
      /\ (graceSlept' /\ ~graceSlept) => (pc = "grace_sleep" /\ ret = "true")
      /\ (pc' = "poll_sleep" /\ pc' # pc) => (graceSlept' <=> ret' = "true")
      /\ (pc' = "measure" /\ pc' # pc) => pc \in {"poll_sleep", "init"}
      /\ (pc = "poll_sleep" /\ pc' # pc /\ ~interrupted') => pc' = "measure"
      /\ (iter' # iter) => pc = "measure"
      /\ (current_size_bytes' # current_size_bytes) =>
            (pc = "measure" /\ pc' = "set_bytes") ]_vars

\* C16 witness: the poll-interval sleep has ended in an iteration that took
\* the grace sleep
C16_Witness ==
  pc = "measure" /\ iter = 1 /\ graceSlept /\ ret = "true"

\* C17: in one iteration the backend gets at most one probe, one delete and
\* one compaction request, in that order: a delete only after a healthy
\* probe, a compaction only after an accepted delete; a failed cleanup is
\* not retried inside the iteration.
C17_OneRequestEachInOrder ==
  /\ cleanupCalls <= 1
  /\ nHealth <= 1 /\ nDelete <= 1 /\ nCompact <= 1
  /\ (nHealth > 0) => cleanupCalls = 1
  /\ (nDelete > 0) => (nHealth = 1 /\ Healthy)
  /\ (nCompact > 0) => (nDelete = 1 /\ DeleteAccepted)
  /\ (ret = "false") => (pc \notin {"tc_health", "tc_delete", "tc_compact"} /\ nCompact = 0)

\* C17 witness: the delete of the first iteration failed and the second
\* iteration, still above the threshold, sent its own probe and delete
C17_Witness ==
  /\ iter = 2 /\ errs0 = 1 /\ pc = "tc_done"
  /\ nHealth = 1 /\ nDelete = 1

\* what one returned trigger_cleanup invocation did to the two counters
CallDelta ==
  << loki_cleanup_operations - ops0, loki_cleanup_errors - errs0 >>

\* C19: the two cleanup counters never decrease; a trigger_cleanup invocation
\* adds 1 to exactly one of them or to neither, to neither only when the
\* health probe failed; it returns true exactly when it added to
\* cleanup-operations; so cleanup-operations is the number of invocations
\* that returned true, and operations + errors is at most the number of
\* invocations.
C19_CountersTally ==
  [][ /\ loki_cleanup_operations' >= loki_cleanup_operations
      /\ loki_cleanup_errors' >= loki_cleanup_errors
      /\ (loki_cleanup_operations' - loki_cleanup_operations)
           + (loki_cleanup_errors' - loki_cleanup_errors) <= 1
      /\ loki_cleanup_operations' = totalTrue'
      /\ loki_cleanup_operations' + loki_cleanup_errors' <= totalCalls'
      /\ Returned' =>
            /\ CallDelta' \in { <<1, 0>>, <<0, 1>>, <<0, 0>> }
            /\ (CallDelta' = <<0, 0>>) => ~Healthy'
            /\ (ret' = "true") <=> (CallDelta'[1] = 1) ]_vars

\* C19 witness: two invocations, the first counted an operation, the second
\* found the backend unhealthy and counted nothing
C19_Witness ==
  /\ pc = "tc_done" /\ totalCalls = 2 /\ ~Healthy /\ ret = "false"
  /\ loki_cleanup_operations = 1 /\ loki_cleanup_errors = 0

BodyPcs == {"set_bytes", "set_gb", "set_max", "set_pct", "write_file", "check",
            "tc_health", "tc_delete", "tc_compact", "tc_done", "grace_sleep"}

\* C18: a hung or failing backend cannot stall the monitor: given that every
\* request returns or times out and every sleep ends, each started iteration
\* reaches its poll-interval sleep, the sleep is followed by the next
\* iteration, and an iteration that obtains a size goes on to export it;
\* so iterations keep coming until the process is interrupted (or the bound
\* MaxIter of the exploration is reached).
C18_MonitorNeverStalls ==
  /\ (pc \in BodyPcs) ~> (pc \in {"poll_sleep", "exit"})
  /\ (pc = "poll_sleep" /\ iter < MaxIter) ~> (pc \in {"measure", "exit"})
  /\ (pc = "measure") ~> (pc = "exit" \/ excCaught \/ (measured /\ pc = "check"))
  /\ <>(pc = "exit" \/ (pc = "poll_sleep" /\ iter = MaxIter))

\* C18 witness: the second iteration reached its threshold check with a new
\* measurement after the first one met a backend whose requests all raised
C18_Witness ==
  /\ pc = "check" /\ iter = 2 /\ measured
  /\ loki_cleanup_errors = 1 /\ loki_data_size_bytes = current_size_bytes

\* a string without its leading and trailing whitespace
Stripped(e) ==
  LET keep == {i \in DOMAIN e : e[i] \notin Whitespace}
  IN  IF keep = {} THEN << >>
      ELSE SubSeq(e, CHOOSE i \in keep : \A j \in keep : i <= j,
                     CHOOSE i \in keep : \A j \in keep : j <= i)
HasSubstring(e, m) ==
  \E i \in 1..Len(e) :
    /\ i + Len(m) - 1 <= Len(e)
    /\ \A k \in 1..Len(m) : e[i + k - 1] = m[k]
KeepsTarget(t) ==
  /\ t.hasExpr
  /\ Stripped(t.expr) # << >>
  /\ \E m \in AVAILABLE_METRICS : HasSubstring(Stripped(t.expr), m)
RECURSIVE PanelsFixed(_, _)
PanelsFixed(in, out) ==
  /\ Len(out) = Len(in)
  /\ \A i \in DOMAIN in :
       /\ out[i].id = in[i].id
       /\ out[i].type = in[i].type
       /\ IF in[i].type = "row"
            THEN in[i].hasPanels => PanelsFixed(in[i].panels, out[i].panels)
            ELSE in[i].hasTargets =>
                   out[i].targets = SelectSeq(in[i].targets, KeepsTarget)
RECURSIVE SameTargets(_, _)
SameTargets(a, b) ==
  /\ Len(a) = Len(b)
  /\ \A i \in DOMAIN a :
       /\ a[i].targets = b[i].targets
       /\ SameTargets(a[i].panels, b[i].panels)

\* C20: process_panels returns as many panels as it was given, in the same
\* order, also inside rows that have sub-panels; every panel that is not a row
\* and has targets ends up with exactly those of its targets, in their order,
\* whose stripped expr is non-empty and holds an AVAILABLE_METRICS name as a
\* substring; and a second pass changes no target list.
C20_PanelsKeptTargetsFiltered ==
  /\ dash_pc \in {"processed", "again"} => PanelsFixed(dashboard, fixed_panels)
  /\ dash_pc = "again" => SameTargets(fixed_panels, fixed_again)

\* two panels, the second a row whose sub-panel had the targets "foo" and
\* "group": only the second survives, and the second pass has run
C20_Witness ==
  /\ dash_pc = "again"
  /\ Len(dashboard) = 2
  /\ dashboard[1].type # "row" /\ dashboard[1].hasTargets
  /\ dashboard[2].type = "row" /\ dashboard[2].hasPanels
  /\ Len(dashboard[2].panels) = 1
  /\ Len(dashboard[2].panels[1].targets) = 2
  /\ dashboard[2].panels[1].targets[1].expr = << "f", "o", "o" >>
  /\ dashboard[2].panels[1].targets[2].expr = << "g", "r", "o", "u", "p" >>
  /\ fixed_panels[2].panels[1].targets = << dashboard[2].panels[1].targets[2] >>
  /\ fixed_again[2].panels[1].targets = fixed_panels[2].panels[1].targets

TypeOK ==
  /\ pc \in {"main", "init", "measure", "set_bytes", "set_gb", "set_max", "set_pct",
             "write_file", "check", "tc_health", "tc_delete", "tc_compact", "tc_done",
             "grace_sleep", "poll_sleep", "exit"}
  /\ ret \in {"none", "true", "false"}
  /\ iter \in 0 .. MaxIter
====
